---- MODULE Spec2Model ----
(***************************************************************************)
(* Model of mdp/nodes/classifier_nodes.py: PerceptronClassifier,           *)
(* SimpleMarkovClassifier, DiscreteHopfieldClassifier, KMeansClassifier    *)
(* and GaussianClassifierNode.                                             *)
(*                                                                         *)
(* One classifier instance is constructed in Init (the variable node says  *)
(* which); every public call (train, stop_training, label, prob) is one    *)
(* action.  The variable call records the arguments of the last call and   *)
(* outcome its result: "ok" or the name of the exception it raised.        *)
(***************************************************************************)
EXTENDS Integers, Sequences, FiniteSets, TLC

VARIABLES
    node,            \* class of the constructed classifier
    input_dim,       \* Node.input_dim
    training,        \* the node is still in its training phase
    ntrain,          \* train calls made so far
    call,            \* the last public call and its arguments
    outcome,         \* "ok", or the exception the last call raised
    result,          \* value returned by the last label / prob call
    \* PerceptronClassifier
    weights,         \* self.weights, in units of learning_rate; <<>> is []
    offset_weight,   \* self.offset_weight, in units of learning_rate
    pre,             \* the classifier's own state before the last call
    \* DiscreteHopfieldClassifier
    weight_matrix,   \* self._weight_matrix times input_dim; <<>> is the int 0
    num_patterns,    \* self._num_patterns
    shuffled_update, \* self._shuffled_update
    stored,          \* the pattern of a net trained with exactly one, else <<>>
    relaxing,        \* _label_one is inside its while loop
    pattern,         \* the local pattern of _label_one
    flipped,         \* some pass of the current relaxation flipped a unit
    \* KMeansClassifier
    num_clusters,    \* self._num_clusters
    max_iter,        \* self.max_iter
    data,            \* self.data, row by row
    data_is_array,   \* self.data is a numpy array, no longer a list
    tlen,            \* self.tlen
    centroids,       \* self._centroids: set = FALSE is None
    \* SimpleMarkovClassifier
    ntotal_connections,  \* self.ntotal_connections
    features,        \* self.features: a dict, its keys are the DOMAIN
    markov_labels,   \* self.labels of the Markov classifier
    connections,     \* self.connections
    observed,        \* how often each (feature, label) pair was trained
    \* GaussianClassifierNode
    cov_objs,        \* self.cov_objs: has = FALSE once the attribute is deleted
    gauss_labels,    \* self.labels of the Gaussian node: has = FALSE if unset
    means,           \* self.means
    inv_covs,        \* self.inv_covs
    sqrt_def_covs,   \* self._sqrt_def_covs, each as the determinant under the root
    gauss_p          \* self.p

shared == <<node, input_dim>>
pvars == <<weights, offset_weight>>
hvars == <<weight_matrix, num_patterns, shuffled_update, stored>>
hloop == <<relaxing, pattern, flipped>>
kconf == <<num_clusters, max_iter>>
kvars == <<data, data_is_array, tlen, centroids>>

mvars == <<ntotal_connections, features, markov_labels, connections, observed>>
gvars == <<cov_objs, gauss_labels, means, inv_covs, sqrt_def_covs, gauss_p>>

vars == <<node, input_dim, training, ntrain, call, outcome, result, pre,
          pvars, hvars, hloop, kconf, kvars, mvars, gvars>>

\* the variables of the other classes
notPerceptron == <<hvars, hloop, kconf, kvars, mvars, gvars>>
notHopfield == <<pvars, kconf, kvars, mvars, gvars>>
notKMeans == <<pvars, hvars, hloop, mvars, gvars>>
notMarkov == <<pvars, hvars, hloop, kconf, kvars, gvars>>
notGaussian == <<pvars, hvars, hloop, kconf, kvars, mvars>>

----------------------------------------------------------------------------
(* Bounds of the model *)

\* most rows of one batch
MaxRows == 2
\* most train calls on one classifier
MaxTrainCalls == 2

----------------------------------------------------------------------------
(* Generic helpers *)

\* numx.sign
sign(v) == IF v > 0 THEN 1 ELSE IF v < 0 THEN -1 ELSE 0

abs(v) == IF v < 0 THEN -v ELSE v

\* the smaller of two numbers
Min(a, b) == IF a < b THEN a ELSE b

RECURSIVE SumTo(_, _)
SumTo(s, n) == IF n = 0 THEN 0 ELSE s[n] + SumTo(s, n - 1)

\* the sum of a sequence of numbers
SumSeq(s) == SumTo(s, Len(s))

RECURSIVE DotTo(_, _, _)
DotTo(a, b, n) == IF n = 0 THEN 0 ELSE a[n] * b[n] + DotTo(a, b, n - 1)

\* numx.dot of two vectors of the same length
dot(a, b) == DotTo(a, b, Len(a))

\* all sequences over S of length lo..hi
SeqsOf(S, lo, hi) == UNION {[1..n -> S] : n \in lo..hi}

\* A labels argument: a scalar (seq = FALSE, val = <<l>>) or a list / tuple /
\* array (seq = TRUE, val = its elements).
Scalar(l) == [seq |-> FALSE, val |-> <<l>>]
List(s) == [seq |-> TRUE, val |-> s]

LabelArgs(S, hi) == {Scalar(l) : l \in S} \cup {List(s) : s \in SeqsOf(S, 1, hi)}

NoLabels == Scalar(0)
NoCall == [op |-> "construct", x |-> <<>>, labels |-> NoLabels, threshold |-> 0]
Call(op, x, labels) == [op |-> op, x |-> x, labels |-> labels, threshold |-> 0]

\* mdp.utils.izip_stretched(x, labels): the label paired with row i; a scalar
\* label is stretched over all the rows.
izip_stretched(labels, i) == IF labels.seq THEN labels.val[i] ELSE labels.val[1]

\* Node.train: the arguments are checked first, and _train only runs when the
\* check raised nothing.
Node_train(check, before, after) == IF check = "ok" THEN after ELSE before

----------------------------------------------------------------------------
(* PerceptronClassifier *)

\* 1.0 in units of learning_rate = 0.1
OneInRates == 10

PerceptronDim == 2
PerceptronLabels == {-1, 0, 1}

PerceptronRows ==
    { [j \in 1..PerceptronDim |-> IF j = 1 THEN 1 ELSE -1],
      [j \in 1..PerceptronDim |-> -1] }

\* a version of the check that looks at the first label only
Perceptron_check_first_label(x, labels) ==
    IF labels.seq /\ Len(labels.val) # Len(x)
    THEN "TrainingException"
    ELSE IF abs(labels.val[1]) # 1 THEN "TrainingException" ELSE "ok"

\* PerceptronClassifier._check_train_args
Perceptron_check_train_args(x, labels) ==
    IF labels.seq /\ Len(labels.val) # Len(x)
    THEN "TrainingException"
    ELSE IF ~ \A i \in 1..Len(labels.val) : abs(labels.val[i]) = 1
         THEN "TrainingException"
         ELSE "ok"

\* PerceptronClassifier._label for one row
Perceptron_label(xi, w, b) == sign(dot(xi, w) + b)

\* the loop over j of _train: new_weights is the same array as self.weights,
\* so every assignment is visible to the reads that follow it
RECURSIVE Perceptron_update_weights(_, _, _, _)
Perceptron_update_weights(w, rate, xi, j) ==
    IF j > Len(w) THEN w
    ELSE Perceptron_update_weights([w EXCEPT ![j] = w[j] + rate * xi[j]],
                                   rate, xi, j + 1)

\* a version of the row update that takes the prediction again for every j,
\* from the array it is writing to
RECURSIVE Perceptron_update_reread(_, _, _, _, _)
Perceptron_update_reread(w, b, labeli, xi, j) ==
    IF j > Len(w) THEN w
    ELSE Perceptron_update_reread(
             [w EXCEPT ![j] = w[j] + (labeli - Perceptron_label(xi, w, b)) * xi[j]],
             b, labeli, xi, j + 1)

Perceptron_train_row_reread(s, xi, labeli) ==
    [w |-> Perceptron_update_reread(s.w, s.b, labeli, xi, 1),
     b |-> s.b + (labeli - Perceptron_label(xi, s.w, s.b))]

\* one pass of the loop over the rows of _train
Perceptron_train_row(s, xi, labeli) ==
    LET rate == labeli - Perceptron_label(xi, s.w, s.b)
    IN  [w |-> Perceptron_update_weights(s.w, rate, xi, 1), b |-> s.b + rate]

RECURSIVE Perceptron_train_rows(_, _, _, _)
Perceptron_train_rows(s, x, labels, i) ==
    IF i > Len(x) THEN s
    ELSE Perceptron_train_rows(
             Perceptron_train_row(s, x[i], izip_stretched(labels, i)),
             x, labels, i + 1)

\* PerceptronClassifier._train
Perceptron_train(s, x, labels) ==
    LET s0 == IF Len(s.w) = 0
              THEN [w |-> [j \in 1..input_dim |-> OneInRates], b |-> s.b]
              ELSE s
    IN  Perceptron_train_rows(s0, x, labels, 1)

PerceptronState == [w |-> weights, b |-> offset_weight]

PerceptronTrain ==
    /\ node = "Perceptron"
    /\ training
    /\ ntrain < MaxTrainCalls
    /\ ntrain' = ntrain + 1
    /\ \E x \in SeqsOf(PerceptronRows, 1, MaxRows),
          labels \in LabelArgs(PerceptronLabels, MaxRows) :
         LET check == Perceptron_check_train_args(x, labels)
             after == Node_train(check, PerceptronState,
                                 Perceptron_train(PerceptronState, x, labels))
         IN  /\ call' = Call("train", x, labels)
             /\ outcome' = check
             /\ weights' = after.w
             /\ offset_weight' = after.b
    /\ pre' = PerceptronState
    /\ result' = <<>>
    /\ UNCHANGED <<shared, training, notPerceptron>>

\* PerceptronClassifier._label on a batch: numx.dot raises on the empty
\* weights list of a classifier that was never trained
PerceptronLabel ==
    /\ node = "Perceptron"
    /\ \E x \in SeqsOf(PerceptronRows, 1, MaxRows) :
         /\ call' = Call("label", x, NoLabels)
         /\ IF Len(weights) = 0
            THEN outcome' = "ValueError" /\ result' = <<>>
            ELSE /\ outcome' = "ok"
                 /\ result' = [i \in 1..Len(x) |->
                                  Perceptron_label(x[i], weights, offset_weight)]
    /\ pre' = PerceptronState
    /\ UNCHANGED <<shared, training, ntrain, pvars, notPerceptron>>

----------------------------------------------------------------------------
(* DiscreteHopfieldClassifier *)

\* The weights are kept times input_dim, so that they are integers: the sign
\* of dot(w_row, pattern) - threshold is that of the same expression times
\* input_dim.

HopfieldDims == {2, 3, 4}
HopfieldThresholds == {0, 1}
\* most patterns one net is trained with
MaxPatterns == 2

Patterns(n) == [1..n -> BOOLEAN]

\* mdp.utils.bool_to_sign and sign_to_bool
bool_to_sign(p) == [j \in 1..Len(p) |-> IF p[j] THEN 1 ELSE -1]
sign_to_bool(p) == [j \in 1..Len(p) |-> p[j] >= 0]

\* numx.outer
outer(a, b) == [i \in 1..Len(a) |-> [j \in 1..Len(b) |-> a[i] * b[j]]]

\* self._weight_matrix += weights, where self._weight_matrix starts as the int 0
MatrixAdd(W, M) ==
    IF W = <<>> THEN M
    ELSE [i \in 1..Len(M) |-> [j \in 1..Len(M) |-> W[i][j] + M[i][j]]]

\* a version of _train_one that takes the outer product of the booleans
Hopfield_train_one_unsigned(s, p) ==
    LET bp == [j \in 1..Len(p) |-> IF p[j] THEN 1 ELSE 0]
    IN  [W |-> MatrixAdd(s.W, outer(bp, bp)), n |-> s.n + 1]

\* DiscreteHopfieldClassifier._train_one
Hopfield_train_one(s, p) ==
    LET sp == bool_to_sign(p)
    IN  [W |-> MatrixAdd(s.W, outer(sp, sp)), n |-> s.n + 1]

RECURSIVE Hopfield_train(_, _)
\* DiscreteHopfieldClassifier._train
Hopfield_train(s, x) ==
    IF x = <<>> THEN s ELSE Hopfield_train(Hopfield_train_one(s, Head(x)), Tail(x))

\* DiscreteHopfieldClassifier._stop_training on a weight matrix
Hopfield_stop_training(W) ==
    [i \in 1..Len(W) |-> [j \in 1..Len(W) |-> IF i = j THEN 0 ELSE W[i][j]]]

\* the visit of one unit in the for loop of _label_one
Hopfield_visit(W, thr, st, row) ==
    LET new_pattern_row == sign(dot(W[row], st.p) - thr * Len(W))
    IN  IF new_pattern_row = 0 THEN st
        ELSE IF st.p[row] # new_pattern_row
             THEN [p |-> [st.p EXCEPT ![row] = new_pattern_row],
                   has_converged |-> FALSE]
             ELSE st

RECURSIVE Hopfield_visits(_, _, _, _, _)
\* the for loop of _label_one from its k-th unit on (st \in {...} binds the
\* state after the visit as a value, computed once)
Hopfield_visits(W, thr, st0, iter_order, k) ==
    IF k > Len(iter_order) THEN st0
    ELSE CHOOSE r \in { Hopfield_visits(W, thr, st, iter_order, k + 1) :
                           st \in {Hopfield_visit(W, thr, st0, iter_order[k])} } : TRUE

\* a pass that takes every unit's new value from the pattern as it was when
\* the pass began
Hopfield_pass_synchronous(W, thr, p, iter_order) ==
    LET new == [row \in 1..Len(p) |->
                   LET v == sign(dot(W[row], p) - thr * Len(W))
                   IN  IF v = 0 THEN p[row] ELSE v]
    IN  [p |-> new, has_converged |-> new = p]

\* one pass of the while loop of _label_one
Hopfield_pass(W, thr, p, iter_order) ==
    Hopfield_visits(W, thr, [p |-> p, has_converged |-> TRUE], iter_order, 1)

\* the orders of range(n) that numx_rand.shuffle can leave
Shuffles ==
    [n \in HopfieldDims |->
        {f \in [1..n -> 1..n] : \A i, j \in 1..n : f[i] = f[j] => i = j}]

\* iter_order of one pass of _label_one
IterOrders(n) ==
    IF shuffled_update THEN Shuffles[n] ELSE {[i \in 1..n |-> i]}

HopfieldState == [W |-> weight_matrix, n |-> num_patterns, training |-> training]

HopfieldTrain ==
    /\ node = "Hopfield"
    /\ training
    /\ ~relaxing
    /\ \E n \in 1..MaxRows :
         /\ num_patterns + n <= MaxPatterns
         /\ \E x \in [1..n -> Patterns(input_dim)] :
              /\ LET after == Hopfield_train([W |-> weight_matrix,
                                               n |-> num_patterns], x)
                 IN  /\ weight_matrix' = after.W
                     /\ num_patterns' = after.n
              /\ stored' = IF num_patterns + n = 1 THEN x[1] ELSE <<>>
              /\ call' = Call("train", x, NoLabels)
    /\ outcome' = "ok"
    /\ result' = <<>>
    /\ pre' = HopfieldState
    /\ UNCHANGED <<shared, training, ntrain, shuffled_update, hloop, notHopfield>>

\* _stop_training: subscripting the int 0 of a net that was never trained
\* raises
HopfieldStopTraining ==
    /\ node = "Hopfield"
    /\ ~relaxing
    /\ call' = Call("stop_training", <<>>, NoLabels)
    /\ IF weight_matrix = <<>>
       THEN /\ outcome' = "TypeError"
            /\ UNCHANGED <<weight_matrix, training>>
       ELSE /\ outcome' = "ok"
            /\ weight_matrix' = Hopfield_stop_training(weight_matrix)
            /\ training' = FALSE
    /\ result' = <<>>
    /\ pre' = HopfieldState
    /\ UNCHANGED <<shared, ntrain, num_patterns, shuffled_update, stored,
                   hloop, notHopfield>>

\* _label of a batch of one row, up to the while loop of _label_one; len() of
\* the int 0 of a net that was never trained raises
HopfieldLabel ==
    /\ node = "Hopfield"
    /\ ~relaxing
    /\ \E q \in Patterns(input_dim), thr \in HopfieldThresholds :
         /\ call' = [op |-> "label", x |-> <<q>>, labels |-> NoLabels,
                     threshold |-> thr]
         /\ IF weight_matrix = <<>>
            THEN /\ outcome' = "TypeError"
                 /\ UNCHANGED hloop
            ELSE /\ outcome' = "running"
                 /\ relaxing' = TRUE
                 /\ pattern' = bool_to_sign(q)
                 /\ flipped' = FALSE
    /\ result' = <<>>
    /\ pre' = HopfieldState
    /\ UNCHANGED <<shared, training, ntrain, hvars, notHopfield>>

\* one pass of the while loop of _label_one, and the return when the pass
\* has flipped nothing
HopfieldRelax ==
    /\ node = "Hopfield"
    /\ relaxing
    /\ \E iter_order \in IterOrders(Len(weight_matrix)) :
       \E st \in {Hopfield_pass(weight_matrix, call.threshold, pattern, iter_order)} :
             IF st.has_converged
             THEN /\ relaxing' = FALSE
                  /\ outcome' = "ok"
                  /\ result' = <<sign_to_bool(st.p)>>
                  /\ pattern' = <<>>
                  /\ UNCHANGED flipped
             ELSE /\ pattern' = st.p
                  /\ flipped' = TRUE
                  /\ UNCHANGED <<relaxing, outcome, result>>
    /\ UNCHANGED <<shared, training, ntrain, call, pre, hvars, notHopfield>>

----------------------------------------------------------------------------
(* KMeansClassifier *)

\* A centroid is a vector of rationals with one denominator, s[j] / n, kept
\* in lowest terms; numpy holds it as a row of floats.

\* max_iter when the constructor is given none
DefaultMaxIter == 10000
KMeansMaxIters == {1, 2, DefaultMaxIter}
KMeansClusters == {1, 2}
KMeansDim == 1
\* most rows one classifier is trained with
KMeansMaxSamples == 3
KMeansVals == {0, 1, 3}
KMeansRows == {[j \in 1..KMeansDim |-> v] : v \in KMeansVals}

RECURSIVE Gcd(_, _)
Gcd(a, b) == IF b = 0 THEN a ELSE Gcd(b, a % b)

RECURSIVE GcdTo(_, _, _)
GcdTo(s, n, g) == IF n = 0 THEN g ELSE GcdTo(s, n - 1, Gcd(g, abs(s[n])))

\* sum / count of the rows of one cluster
Quotient(s, n) == LET g == GcdTo(s, Len(s), n)
                  IN  [s |-> [j \in 1..Len(s) |-> s[j] \div g], n |-> n \div g]

\* a data row as a centroid
Row(xi) == [s |-> xi, n |-> 1]

\* numx.linalg.norm(data - c), squared and times c.n squared
SqNorm(xi, c) == SumSeq([j \in 1..Len(xi) |->
                            (xi[j] * c.n - c.s[j]) * (xi[j] * c.n - c.s[j])])

\* norm(xi - a) < norm(xi - b)
Nearer(xi, a, b) == SqNorm(xi, a) * b.n * b.n < SqNorm(xi, b) * a.n * a.n

\* _nearest_centroid_idx: argmin returns the first index of the least
\* distance (indices from 1 here, from 0 in the source)
KMeans_nearest_centroid_idx(xi, cents) ==
    CHOOSE i \in 1..Len(cents) :
        /\ \A k \in 1..Len(cents) : ~Nearer(xi, cents[k], cents[i])
        /\ \A k \in 1..(i - 1) : Nearer(xi, cents[i], cents[k])

\* the loop over self.data of one iteration: (sum_position, count) per cluster
RECURSIVE KMeans_cluster(_, _, _, _)
KMeans_cluster(d, cents, new_centroids, r) ==
    IF r > Len(d) THEN new_centroids
    ELSE LET idx == KMeans_nearest_centroid_idx(d[r], cents)
             pos_count == [s |-> [j \in 1..Len(d[r]) |->
                                     new_centroids[idx].s[j] + d[r][j]],
                           n |-> new_centroids[idx].n + 1]
         IN  KMeans_cluster(d, cents,
                            [new_centroids EXCEPT ![idx] = pos_count], r + 1)

\* the new centroid positions of one iteration; an empty cluster keeps its
\* centroid
KMeans_new_centroids(d, cents) ==
    LET zero == [s |-> [j \in 1..KMeansDim |-> 0], n |-> 0]
        c == KMeans_cluster(d, cents, [idx \in 1..Len(cents) |-> zero], 1)
    IN  [idx \in 1..Len(cents) |->
            IF c[idx].n > 0 THEN Quotient(c[idx].s, c[idx].n) ELSE cents[idx]]

\* the for loop of _stop_training: stable is FALSE when max_iter iterations
\* went by and none found the centroids unchanged
RECURSIVE KMeans_iterate(_, _, _)
KMeans_iterate(d, cents, steps) ==
    IF steps = 0 THEN [stable |-> FALSE, c |-> cents]
    ELSE LET new_centroids == KMeans_new_centroids(d, cents)
         IN  IF new_centroids = cents THEN [stable |-> TRUE, c |-> cents]
             ELSE KMeans_iterate(d, new_centroids, steps - 1)

None == [set |-> FALSE, val |-> <<>>]
Array(c) == [set |-> TRUE, val |-> c]

\* "not self._centroids": TRUE, FALSE, or the ValueError numpy raises for the
\* truth value of an array of more than one element
KMeans_not_centroids(c) ==
    IF ~c.set THEN "True"
    ELSE IF Len(c.val) * KMeansDim > 1 THEN "ValueError"
    ELSE IF c.val[1].s[1] = 0 THEN "True" ELSE "False"

\* random.sample(xrange(tlen), k): every choice of k distinct indices in
\* some order; none when k > tlen, where sample raises ValueError
Samples(n, k) == {f \in [1..k -> 1..n] : \A a, b \in 1..k : a # b => f[a] # f[b]}

KMeans_label(x, c) ==
    [i \in 1..Len(x) |-> KMeans_nearest_centroid_idx(x[i], c.val) - 1]

KMeansState == [data |-> data, data_is_array |-> data_is_array, tlen |-> tlen,
                centroids |-> centroids, training |-> training]

\* _train: tlen grows before the rows are appended; once a _stop_training
\* has turned self.data into an array, extend is no attribute of it
KMeansTrain ==
    /\ node = "KMeans"
    /\ training
    /\ \E n \in 1..MaxRows :
         /\ tlen + n <= KMeansMaxSamples
         /\ \E x \in [1..n -> KMeansRows] :
              /\ call' = Call("train", x, NoLabels)
              /\ tlen' = tlen + n
              /\ IF data_is_array
                 THEN outcome' = "AttributeError" /\ data' = data
                 ELSE outcome' = "ok" /\ data' = data \o x
    /\ result' = <<>>
    /\ pre' = KMeansState
    /\ UNCHANGED <<shared, ntrain, training, kconf, data_is_array, centroids,
                   notKMeans>>

\* _stop_training, with every draw random.sample can make.  self._centroids
\* is assigned only by the iteration that finds the centroids unchanged.
KMeansStopTraining ==
    /\ node = "KMeans"
    /\ call' = Call("stop_training", <<>>, NoLabels)
    /\ data_is_array' = TRUE
    /\ LET given == KMeans_not_centroids(centroids)
       IN  IF Len(data) # tlen \/ given = "ValueError"
           THEN /\ outcome' = "ValueError"
                /\ UNCHANGED <<centroids, training>>
           ELSE IF given = "True" /\ tlen < num_clusters
           THEN /\ outcome' = "ValueError"
                /\ UNCHANGED <<centroids, training>>
           ELSE \E centr_idx \in IF given = "True"
                                 THEN Samples(tlen, num_clusters)
                                 ELSE {<<>>} :
                  LET start == IF given = "True"
                               THEN [i \in 1..num_clusters |->
                                        Row(data[centr_idx[i]])]
                               ELSE centroids.val
                      run == KMeans_iterate(data, start, max_iter)
                  IN  /\ outcome' = "ok"
                      /\ training' = FALSE
                      /\ centroids' = IF run.stable THEN Array(run.c)
                                      ELSE centroids
    /\ result' = <<>>
    /\ pre' = KMeansState
    /\ UNCHANGED <<shared, ntrain, kconf, data, tlen, notKMeans>>

\* _label: iterating over the None of self._centroids raises TypeError
KMeansLabel ==
    /\ node = "KMeans"
    /\ \E x \in SeqsOf(KMeansRows, 1, MaxRows) :
         /\ call' = Call("label", x, NoLabels)
         /\ IF centroids.set
            THEN outcome' = "ok" /\ result' = KMeans_label(x, centroids)
            ELSE outcome' = "TypeError" /\ result' = <<>>
    /\ pre' = KMeansState
    /\ UNCHANGED <<shared, ntrain, training, kconf, kvars, notKMeans>>

----------------------------------------------------------------------------
(* GaussianClassifierNode, on rows of one column *)

GaussVals == {0, 1, 3}
GaussRows == {<<v>> : v \in GaussVals}
GaussLabels == {1, 2}

\* utils.CovarianceMatrix: the running count, sum and sum of squares
CovarianceMatrix == [n |-> 0, sum |-> 0, sumsq |-> 0]

RECURSIVE CovarianceMatrix_update(_, _)
CovarianceMatrix_update(acc, rows) ==
    IF rows = <<>> THEN acc
    ELSE CovarianceMatrix_update(
             [n |-> acc.n + 1, sum |-> acc.sum + Head(rows)[1],
              sumsq |-> acc.sumsq + Head(rows)[1] * Head(rows)[1]],
             Tail(rows))

\* CovarianceMatrix.fix: the unbiased covariance, the mean and the count.
\* The covariance of a single row is 0 / 0.
CovarianceMatrix_fix(acc) ==
    [cov |-> [num |-> acc.n * acc.sumsq - acc.sum * acc.sum,
              den |-> acc.n * (acc.n - 1)],
     mean |-> [num |-> acc.sum, den |-> acc.n],
     p |-> acc.n]

Gaussian_check_train_args(x, labels) ==
    IF labels.seq /\ Len(labels.val) # Len(x)
    THEN "TrainingException" ELSE "ok"

\* numx.compress(labels_ == lbl, x, axis=0)
Compress(x, labels, lbl) ==
    SelectSeq([i \in 1..Min(Len(x), Len(labels.val)) |->
                  [row |-> x[i], lbl |-> labels.val[i]]],
              LAMBDA e : e.lbl = lbl)

RowsOf(sel) == [i \in 1..Len(sel) |-> sel[i].row]

\* _update_covs
Gaussian_update_covs(objs, x_lbl, lbl) ==
    LET obj == IF lbl \in DOMAIN objs THEN objs[lbl] ELSE CovarianceMatrix
    IN  [l \in DOMAIN objs \cup {lbl} |->
            IF l = lbl THEN CovarianceMatrix_update(obj, x_lbl) ELSE objs[l]]

\* the loop of _train over set(labels_); the accumulators of different
\* labels are independent, so that the order of the set does not matter
RECURSIVE Gaussian_train_labels(_, _, _, _)
Gaussian_train_labels(objs, x, labels, todo) ==
    IF todo = {} THEN objs
    ELSE LET lbl == CHOOSE l \in todo : TRUE
         IN  Gaussian_train_labels(
                 Gaussian_update_covs(objs, RowsOf(Compress(x, labels, lbl)), lbl),
                 x, labels, todo \ {lbl})

Gaussian_train(objs, x, labels) ==
    IF labels.seq
    THEN Gaussian_train_labels(objs, x, labels,
                               {labels.val[i] : i \in 1..Len(labels.val)})
    ELSE Gaussian_update_covs(objs, x, labels.val[1])

\* list.sort of the keys
RECURSIVE Sorted(_)
Sorted(S) == IF S = {} THEN <<>>
             ELSE LET m == CHOOSE a \in S : \A b \in S : a <= b
                  IN  <<m>> \o Sorted(S \ {m})

\* utils.inv of a 1 x 1 matrix: LinAlgError on 0; on the nan of a single row
\* nan_inv says whether the LAPACK routine reports the matrix as singular
utils_inv(cov, nan_inv) ==
    IF cov.den = 0 THEN (IF nan_inv = "nan" THEN [ok |-> TRUE, val |-> cov]
                         ELSE [ok |-> FALSE, val |-> cov])
    ELSE IF cov.num = 0 THEN [ok |-> FALSE, val |-> cov]
    ELSE [ok |-> TRUE, val |-> [num |-> cov.den, den |-> cov.num]]

\* the loop of _stop_training over self.labels from label number i; s holds
\* the lists built so far.  failed says that utils.inv raised.
RECURSIVE Gaussian_fix_labels(_, _, _, _)
Gaussian_fix_labels(s, objs, i, nan_inv) ==
    IF i > Len(s.labels) THEN s
    ELSE LET fixed == CovarianceMatrix_fix(objs[s.labels[i]])
             inverse == utils_inv(fixed.cov, nan_inv)
             appended == [s EXCEPT !.sqrt_def_covs = Append(@, fixed.cov),
                                   !.means = Append(@, fixed.mean),
                                   !.p = Append(@, fixed.p),
                                   !.nitems = @ + fixed.p]
         IN  IF ~inverse.ok THEN [appended EXCEPT !.failed = TRUE]
             ELSE Gaussian_fix_labels(
                      [appended EXCEPT !.inv_covs = Append(@, inverse.val)],
                      objs, i + 1, nan_inv)

\* _stop_training up to "del self.cov_objs"; p[i] / nitems is kept as the
\* pair of the two
Gaussian_stop_training(objs, nan_inv) ==
    LET s == Gaussian_fix_labels(
                 [labels |-> Sorted(DOMAIN objs), inv_covs |-> <<>>,
                  means |-> <<>>, p |-> <<>>, sqrt_def_covs |-> <<>>,
                  nitems |-> 0, failed |-> FALSE], objs, 1, nan_inv)
    IN  IF s.failed THEN s
        ELSE [s EXCEPT !.p = [i \in 1..Len(s.p) |->
                                 [num |-> s.p[i], den |-> s.nitems]]]

\* a class_probabilities that only misses the attribute self.labels
Gaussian_probabilities_of_labels(glabels, sqrts, invs, mns, ps) ==
    IF ~glabels.has THEN "AttributeError" ELSE "ok"

\* class_probabilities: "ok", or the exception raised on the attributes that
\* _stop_training has not set or has not filled
Gaussian_class_probabilities(glabels, sqrts, invs, mns, ps) ==
    IF ~glabels.has THEN "AttributeError"
    ELSE IF \E i \in 1..Len(glabels.val) :
               i > Len(sqrts) \/ i > Len(invs) \/ i > Len(mns) \/ i > Len(ps)
    THEN "IndexError"
    ELSE "ok"

GaussianState == [cov_objs |-> cov_objs, labels |-> gauss_labels,
                  means |-> means, inv_covs |-> inv_covs,
                  sqrt_def_covs |-> sqrt_def_covs, p |-> gauss_p,
                  training |-> training]

GaussianTrain ==
    /\ node = "Gaussian"
    /\ training
    /\ ntrain < MaxTrainCalls
    /\ ntrain' = ntrain + 1
    /\ \E x \in SeqsOf(GaussRows, 1, MaxRows),
          labels \in LabelArgs(GaussLabels, MaxRows) :
         LET check == Gaussian_check_train_args(x, labels)
         IN  /\ call' = Call("train", x, labels)
             /\ outcome' = check
             /\ cov_objs' = Node_train(check, cov_objs,
                                [has |-> TRUE,
                                 objs |-> Gaussian_train(cov_objs.objs, x, labels)])
    /\ result' = <<>>
    /\ pre' = GaussianState
    /\ UNCHANGED <<shared, training, gauss_labels, means, inv_covs,
                   sqrt_def_covs, gauss_p, notGaussian>>

\* _stop_training: self.cov_objs is deleted at the end, and is no attribute
\* any more when _stop_training runs again; an exception of utils.inv leaves
\* the lists as far as they were filled
GaussianStopTraining ==
    /\ node = "Gaussian"
    /\ call' = Call("stop_training", <<>>, NoLabels)
    /\ IF ~cov_objs.has
       THEN /\ outcome' = "AttributeError"
            /\ UNCHANGED <<training, gvars>>
       ELSE \E nan_inv \in {"nan", "LinAlgError"} :
            \E s \in {Gaussian_stop_training(cov_objs.objs, nan_inv)} :
              /\ gauss_labels' = [has |-> TRUE, val |-> s.labels]
              /\ means' = s.means
              /\ inv_covs' = s.inv_covs
              /\ sqrt_def_covs' = s.sqrt_def_covs
              /\ gauss_p' = s.p
              /\ IF s.failed
                 THEN /\ outcome' = "LinAlgError"
                      /\ UNCHANGED <<training, cov_objs>>
                 ELSE /\ outcome' = "ok"
                      /\ training' = FALSE
                      /\ cov_objs' = [has |-> FALSE, objs |-> <<>>]
    /\ result' = <<>>
    /\ pre' = GaussianState
    /\ UNCHANGED <<shared, ntrain, notGaussian>>

\* what label and prob return is a function of the fitted lists and of x; it
\* is kept as the arguments of that function
Posterior(kind, x) == [kind |-> kind, x |-> x, labels |-> gauss_labels.val,
                       means |-> means, inv_covs |-> inv_covs,
                       sqrt_def_covs |-> sqrt_def_covs, p |-> gauss_p]

\* _label: argmax over no class at all raises ValueError
GaussianLabel ==
    /\ node = "Gaussian"
    /\ \E x \in SeqsOf(GaussRows, 1, MaxRows) :
         LET probs == Gaussian_class_probabilities(gauss_labels, sqrt_def_covs,
                                                   inv_covs, means, gauss_p)
         IN  /\ call' = Call("label", x, NoLabels)
             /\ outcome' = IF probs = "ok" /\ Len(gauss_labels.val) = 0
                           THEN "ValueError" ELSE probs
             /\ result' = IF outcome' = "ok" THEN Posterior("argmax", x)
                          ELSE <<>>
    /\ pre' = GaussianState
    /\ UNCHANGED <<shared, ntrain, training, gvars, notGaussian>>

\* _prob
GaussianProb ==
    /\ node = "Gaussian"
    /\ \E x \in SeqsOf(GaussRows, 1, MaxRows) :
         LET probs == Gaussian_class_probabilities(gauss_labels, sqrt_def_covs,
                                                   inv_covs, means, gauss_p)
         IN  /\ call' = Call("prob", x, NoLabels)
             /\ outcome' = probs
             /\ result' = IF probs = "ok" THEN Posterior("dict", x) ELSE <<>>
    /\ pre' = GaussianState
    /\ UNCHANGED <<shared, ntrain, training, gvars, notGaussian>>

----------------------------------------------------------------------------
(* IEEE-754 doubles, as SimpleMarkovClassifier computes with them *)

\* A natural number of any size is a sequence of limbs, least significant
\* first, without leading zero limbs; <<>> is 0.
Limb == 32768

FromNat(n) == IF n = 0 THEN <<>>
              ELSE IF n < Limb THEN <<n>>
              ELSE IF n < Limb * Limb THEN <<n % Limb, n \div Limb>>
              ELSE <<n % Limb, (n \div Limb) % Limb, n \div (Limb * Limb)>>

RECURSIVE Trim(_)
Trim(a) == IF a # <<>> /\ a[Len(a)] = 0 THEN Trim(SubSeq(a, 1, Len(a) - 1))
           ELSE a

LimbAt(a, i) == IF i <= Len(a) THEN a[i] ELSE 0

\* -1, 0, 1 as a < b, a = b, a > b, comparing from limb i downwards
RECURSIVE BigCmpFrom(_, _, _)
BigCmpFrom(a, b, i) ==
    IF i = 0 THEN 0
    ELSE IF a[i] # b[i] THEN (IF a[i] < b[i] THEN -1 ELSE 1)
    ELSE BigCmpFrom(a, b, i - 1)

BigCmp(a, b) == IF Len(a) # Len(b) THEN (IF Len(a) < Len(b) THEN -1 ELSE 1)
                ELSE BigCmpFrom(a, b, Len(a))

\* a + b, from limb i with carry c
RECURSIVE BigAddFrom(_, _, _, _, _)
BigAddFrom(a, b, i, c, n) ==
    IF i > n THEN (IF c = 0 THEN <<>> ELSE <<c>>)
    ELSE <<(LimbAt(a, i) + LimbAt(b, i) + c) % Limb>>
         \o BigAddFrom(a, b, i + 1, (LimbAt(a, i) + LimbAt(b, i) + c) \div Limb, n)

BigAdd(a, b) == BigAddFrom(a, b, 1, 0, IF Len(a) > Len(b) THEN Len(a) ELSE Len(b))

\* a - b for a >= b, from limb i with borrow c
RECURSIVE BigSubFrom(_, _, _, _)
BigSubFrom(a, b, i, c) ==
    IF i > Len(a) THEN <<>>
    ELSE <<(a[i] - LimbAt(b, i) - c + Limb) % Limb>>
         \o BigSubFrom(a, b, i + 1, IF a[i] - LimbAt(b, i) - c < 0 THEN 1 ELSE 0)

BigSub(a, b) == Trim(BigSubFrom(a, b, 1, 0))

BigDouble(a) == BigAdd(a, a)

BigOdd(a) == a # <<>> /\ a[1] % 2 = 1

\* a times the single limb d, from limb i with carry c
RECURSIVE BigMulLimb(_, _, _, _)
BigMulLimb(a, d, i, c) ==
    IF i > Len(a) THEN (IF c = 0 THEN <<>> ELSE <<c>>)
    ELSE <<(a[i] * d + c) % Limb>>
         \o BigMulLimb(a, d, i + 1, (a[i] * d + c) \div Limb)

TimesLimb(a) == IF a = <<>> THEN <<>> ELSE <<0>> \o a

\* a * b, by the limbs of b from limb j
RECURSIVE BigMulFrom(_, _, _)
BigMulFrom(a, b, j) ==
    IF j > Len(b) THEN <<>>
    ELSE BigAdd(Trim(BigMulLimb(a, b[j], 1, 0)),
                TimesLimb(BigMulFrom(a, b, j + 1)))

BigMul(a, b) == IF a = <<>> \/ b = <<>> THEN <<>> ELSE BigMulFrom(a, b, 1)

\* A double that is no less than 0: m * 2^e with 2^52 <= m < 2^53, or m = 0.
\* The values of this model are far from overflow and from the subnormals.
MantissaBits == 53
Zero == [m |-> <<>>, e |-> 0]

RECURSIVE Pow2(_)
Pow2(k) == IF k = 0 THEN 1 ELSE 2 * Pow2(k - 1)

RECURSIVE BitsOf(_)
BitsOf(v) == IF v = 0 THEN 0 ELSE 1 + BitsOf(v \div 2)

LimbBits == BitsOf(Limb - 1)

\* the number of binary digits of a
BitLen(a) == IF a = <<>> THEN 0
             ELSE LimbBits * (Len(a) - 1) + BitsOf(a[Len(a)])

\* a * 2^k
BigShl(a, k) ==
    IF a = <<>> THEN <<>>
    ELSE [i \in 1..(k \div LimbBits) |-> 0]
         \o BigMulLimb(a, Pow2(k % LimbBits), 1, 0)

\* num and den scaled by powers of two, k counting them, until
\* den <= num < 2 den
Normalise(num, den, k0) ==
    LET shift == BitLen(num) - BitLen(den)
        n1 == IF shift < 0 THEN BigShl(num, -shift) ELSE num
        d1 == IF shift > 0 THEN BigShl(den, shift) ELSE den
    IN  IF BigCmp(n1, d1) < 0
        THEN [num |-> BigDouble(n1), den |-> d1, k |-> k0 + shift - 1]
        ELSE [num |-> n1, den |-> d1, k |-> k0 + shift]

\* one step of the long division r / den: the next binary digit joins q
DigitStep(st) ==
    IF BigCmp(st.r, st.den) >= 0
    THEN [r |-> BigDouble(BigSub(st.r, st.den)), den |-> st.den,
          q |-> BigAdd(BigDouble(st.q), <<1>>)]
    ELSE [r |-> BigDouble(st.r), den |-> st.den, q |-> BigDouble(st.q)]

\* bits steps of it, the first half of them before the second
RECURSIVE Digits(_, _)
Digits(st, bits) ==
    IF bits = 0 THEN st
    ELSE IF bits = 1 THEN DigitStep(st)
    ELSE CHOOSE done \in {Digits(half, bits - bits \div 2) :
                             half \in {Digits(st, bits \div 2)}} : TRUE

\* the digits q, and the rest r of the division, rounded to the nearest
\* mantissa, ties to the even one
Rounded(scaled, d, e) ==
    LET half == BigCmp(d.r, d.den)
        up == half > 0 \/ (half = 0 /\ BigOdd(d.q))
        m == IF up THEN BigAdd(d.q, <<1>>) ELSE d.q
    IN  IF BitLen(m) > MantissaBits
        THEN [m |-> BigShl(<<1>>, MantissaBits - 1),
              e |-> scaled.k + e - (MantissaBits - 1) + 1]
        ELSE [m |-> m, e |-> scaled.k + e - (MantissaBits - 1)]

\* a / b * 2^e rounded to the nearest double
RoundQuot(a, b, e) ==
    IF a = <<>> THEN Zero
    ELSE CHOOSE v \in {Rounded(scaled,
                               Digits([r |-> scaled.num, den |-> scaled.den,
                                       q |-> <<>>], MantissaBits), e) :
                          scaled \in {Normalise(a, b, 0)}} : TRUE

\* float(n) of an int below 2^53, which is exact, and a * b and a / b of
\* doubles
FromInt(n) ==
    IF n = 0 THEN Zero
    ELSE [m |-> BigShl(FromNat(n), MantissaBits - BitLen(FromNat(n))),
          e |-> BitLen(FromNat(n)) - MantissaBits]
\* a divided by the single limb d, from limb i downwards with rest c
RECURSIVE BigDivLimb(_, _, _, _)
BigDivLimb(a, d, i, c) ==
    IF i = 0 THEN <<>>
    ELSE BigDivLimb(a, d, i - 1, (c * Limb + a[i]) % d)
         \o <<(c * Limb + a[i]) \div d>>

\* a \div 2^k
BigShr(a, k) ==
    IF Len(a) <= k \div LimbBits THEN <<>>
    ELSE Trim(BigDivLimb(SubSeq(a, k \div LimbBits + 1, Len(a)),
                         Pow2(k % LimbBits), Len(a) - k \div LimbBits, 0))

\* a * 2^e rounded to the nearest double, ties to the even mantissa
Round(a, e) ==
    LET drop == BitLen(a) - MantissaBits
        q == BigShr(a, drop)
        half == BigCmp(BigDouble(BigSub(a, BigShl(q, drop))), BigShl(<<1>>, drop))
        up == half > 0 \/ (half = 0 /\ BigOdd(q))
        m == IF up THEN BigAdd(q, <<1>>) ELSE q
    IN  IF a = <<>> THEN Zero
        ELSE IF drop <= 0 THEN [m |-> BigShl(a, -drop), e |-> e + drop]
        ELSE IF BitLen(m) > MantissaBits
        THEN [m |-> BigShl(<<1>>, MantissaBits - 1), e |-> e + drop + 1]
        ELSE [m |-> m, e |-> e + drop]

FMul(a, b) == Round(BigMul(a.m, b.m), a.e + b.e)
FDiv(a, b) == RoundQuot(a.m, b.m, a.e - b.e)

----------------------------------------------------------------------------
(* SimpleMarkovClassifier *)

MarkovFeatures == {<<0>>, <<1>>}
\* the features asked for: those of training and one that is never trained
MarkovQueries == MarkovFeatures \cup {<<2>>}
MarkovLabels == {"b", "c"}
\* most observations one classifier is trained with
MarkovMaxObservations == 5

\* a check that only refuses labels that are too many
Markov_check_too_many(x, labels) ==
    IF labels.seq /\ Len(labels.val) > Len(x)
    THEN "TrainingException" ELSE "ok"

Markov_check_train_args(x, labels) ==
    IF labels.seq /\ Len(labels.val) # Len(x)
    THEN "TrainingException" ELSE "ok"

\* d[key] += 1, or d[key] = 1 for a new key
Increment(d, key) ==
    [k \in DOMAIN d \cup {key} |->
        IF k = key THEN (IF key \in DOMAIN d THEN d[key] + 1 ELSE 1) ELSE d[k]]

\* a _learn that counts a feature once, however often it comes
Markov_learn_feature_once(s, feature, label) ==
    [n |-> s.n + 1,
     labels |-> Increment(s.labels, label),
     features |-> IF feature \in DOMAIN s.features THEN s.features
                  ELSE Increment(s.features, feature),
     connections |-> Increment(s.connections, <<feature, label>>)]

Markov_learn(s, feature, label) ==
    [n |-> s.n + 1,
     labels |-> Increment(s.labels, label),
     features |-> Increment(s.features, feature),
     connections |-> Increment(s.connections, <<feature, label>>)]

\* the pairs izip_stretched yields: as many as the shorter of x and a label
\* sequence
Stretched(x, labels) == IF labels.seq THEN Min(Len(x), Len(labels.val))
                        ELSE Len(x)

RECURSIVE Markov_train_from(_, _, _, _)
Markov_train_from(s, x, labels, i) ==
    IF i > Stretched(x, labels) THEN s
    ELSE Markov_train_from(Markov_learn(s, x[i], izip_stretched(labels, i)),
                           x, labels, i + 1)

Markov_train(s, x, labels) == Markov_train_from(s, x, labels, 1)

\* the four float expressions of _prob_one for one label
Markov_prob_expr(n_conn, n_label_connections, n_feature_connections, ntotal) ==
    LET one == FromInt(1)
        p_feature_given_label ==
            FDiv(FMul(one, FromInt(n_conn)), FromInt(n_label_connections))
        p_label == FDiv(FMul(one, FromInt(n_label_connections)), FromInt(ntotal))
        p_feature ==
            FDiv(FMul(one, FromInt(n_feature_connections)), FromInt(ntotal))
    IN  FDiv(FMul(FMul(one, p_feature_given_label), p_label), p_feature)

\* the counts _prob_one can meet: of a pair, of its label, of its feature, of
\* all observations
Counts == {t \in (0..MarkovMaxObservations) \X (1..MarkovMaxObservations)
                 \X (1..MarkovMaxObservations) \X (1..MarkovMaxObservations) :
             t[1] <= t[2] /\ t[1] <= t[3] /\ t[2] <= t[4] /\ t[3] <= t[4]}

\* the float expressions, worked out once for every count
ProbValues == {[counts |-> t,
                prob |-> Markov_prob_expr(t[1], t[2], t[3], t[4])] : t \in Counts}

Markov_prob_value(n_conn, n_label_connections, n_feature_connections, ntotal) ==
    (CHOOSE v \in ProbValues :
        v.counts = <<n_conn, n_label_connections, n_feature_connections,
                     ntotal>>).prob

\* a _prob_one that leaves out the labels never seen with the feature
Markov_prob_one_seen_pairs(s, feature) ==
    IF feature \notin DOMAIN s.features THEN <<>>
    ELSE [label \in {l \in DOMAIN s.labels : <<feature, l>> \in DOMAIN s.connections}
            |-> Markov_prob_value(s.connections[<<feature, label>>],
                                  s.labels[label], s.features[feature], s.n)]

Markov_prob_one(s, feature) ==
    IF feature \notin DOMAIN s.features THEN <<>>
    ELSE [label \in DOMAIN s.labels |->
            LET conn == <<feature, label>>
                n_conn == IF conn \in DOMAIN s.connections
                          THEN s.connections[conn] ELSE 0
            IN  Markov_prob_value(n_conn, s.labels[label],
                                  s.features[feature], s.n)]

MarkovState == [n |-> ntotal_connections, labels |-> markov_labels,
                features |-> features, connections |-> connections]

\* the (feature, label) pairs a train call goes through, counted
Observe(bag, x, labels) ==
    LET pairs == [i \in 1..Stretched(x, labels) |->
                     <<x[i], izip_stretched(labels, i)>>]
    IN  [c \in DOMAIN bag \cup {pairs[i] : i \in 1..Len(pairs)} |->
            (IF c \in DOMAIN bag THEN bag[c] ELSE 0)
            + Cardinality({i \in 1..Len(pairs) : pairs[i] = c})]

MarkovTrain ==
    /\ node = "Markov"
    /\ training
    /\ \E x \in SeqsOf(MarkovFeatures, 1, MaxRows),
          labels \in LabelArgs(MarkovLabels, MaxRows) :
         LET check == Markov_check_train_args(x, labels)
             after == Node_train(check, MarkovState,
                                 Markov_train(MarkovState, x, labels))
         IN  /\ ntotal_connections + Len(x) <= MarkovMaxObservations
             /\ call' = Call("train", x, labels)
             /\ outcome' = check
             /\ ntotal_connections' = after.n
             /\ markov_labels' = after.labels
             /\ features' = after.features
             /\ connections' = after.connections
             /\ observed' = Node_train(check, observed,
                                       Observe(observed, x, labels))
    /\ result' = <<>>
    /\ pre' = MarkovState
    /\ UNCHANGED <<shared, training, ntrain, notMarkov>>

\* _prob on a batch
MarkovProb ==
    /\ node = "Markov"
    /\ \E x \in SeqsOf(MarkovQueries, 1, MaxRows) :
         /\ call' = Call("prob", x, NoLabels)
         /\ result' = [i \in 1..Len(x) |-> Markov_prob_one(MarkovState, x[i])]
    /\ outcome' = "ok"
    /\ pre' = MarkovState
    /\ UNCHANGED <<shared, training, ntrain, mvars, notMarkov>>

----------------------------------------------------------------------------
(* Specifications *)

InitShared ==
    /\ training = TRUE
    /\ ntrain = 0
    /\ call = NoCall
    /\ outcome = "ok"
    /\ result = <<>>

InitPerceptronVars ==
    /\ weights = <<>>
    /\ offset_weight = 0

InitHopfieldVars ==
    /\ weight_matrix = <<>>
    /\ num_patterns = 0
    /\ stored = <<>>
    /\ relaxing = FALSE
    /\ pattern = <<>>
    /\ flipped = FALSE

InitKMeansVars ==
    /\ data = <<>>
    /\ data_is_array = FALSE
    /\ tlen = 0
    /\ centroids = None

InitMarkovVars ==
    /\ ntotal_connections = 0
    /\ features = <<>>
    /\ markov_labels = <<>>
    /\ connections = <<>>
    /\ observed = <<>>

InitGaussianVars ==
    /\ cov_objs = [has |-> TRUE, objs |-> <<>>]
    /\ gauss_labels = [has |-> FALSE, val |-> <<>>]
    /\ means = <<>>
    /\ inv_covs = <<>>
    /\ sqrt_def_covs = <<>>
    /\ gauss_p = <<>>

\* the variables of the classes that were not constructed
InitOthers(own) ==
    /\ own = "Perceptron" \/ InitPerceptronVars
    /\ own = "Hopfield" \/ (InitHopfieldVars /\ shuffled_update = TRUE)
    /\ own = "KMeans"
         \/ (InitKMeansVars /\ num_clusters = 1 /\ max_iter = DefaultMaxIter)
    /\ own = "Markov" \/ InitMarkovVars
    /\ own = "Gaussian" \/ InitGaussianVars

InitPerceptron ==
    /\ node = "Perceptron"
    /\ input_dim = PerceptronDim
    /\ InitShared
    /\ InitPerceptronVars
    /\ InitOthers("Perceptron")
    /\ pre = PerceptronState

NextPerceptron ==
    \/ PerceptronTrain
    \/ PerceptronLabel

SpecPerceptron == InitPerceptron /\ [][NextPerceptron]_vars

InitHopfield ==
    /\ node = "Hopfield"
    /\ input_dim \in HopfieldDims
    /\ InitShared
    /\ InitHopfieldVars
    /\ shuffled_update = TRUE
    /\ InitOthers("Hopfield")
    /\ pre = HopfieldState

NextHopfield ==
    \/ HopfieldTrain
    \/ HopfieldStopTraining
    \/ HopfieldLabel
    \/ HopfieldRelax

SpecHopfield == InitHopfield /\ [][NextHopfield]_vars

InitKMeans ==
    /\ node = "KMeans"
    /\ input_dim = KMeansDim
    /\ num_clusters \in KMeansClusters
    /\ max_iter \in KMeansMaxIters
    /\ InitShared
    /\ InitKMeansVars
    /\ InitOthers("KMeans")
    /\ pre = KMeansState

NextKMeans ==
    \/ KMeansTrain
    \/ KMeansStopTraining
    \/ KMeansLabel

SpecKMeans == InitKMeans /\ [][NextKMeans]_vars

InitGaussian ==
    /\ node = "Gaussian"
    /\ input_dim = 1
    /\ InitShared
    /\ InitGaussianVars
    /\ InitOthers("Gaussian")
    /\ pre = GaussianState

NextGaussian ==
    \/ GaussianTrain
    \/ GaussianStopTraining
    \/ GaussianLabel
    \/ GaussianProb

SpecGaussian == InitGaussian /\ [][NextGaussian]_vars

InitMarkov ==
    /\ node = "Markov"
    /\ input_dim = 1
    /\ InitShared
    /\ InitMarkovVars
    /\ InitOthers("Markov")
    /\ pre = MarkovState

NextMarkov ==
    \/ MarkovTrain
    \/ MarkovProb

SpecMarkov == InitMarkov /\ [][NextMarkov]_vars

\* the classes whose train takes labels
InitLabelled == InitPerceptron \/ InitMarkov \/ InitGaussian
NextLabelled == NextPerceptron \/ NextMarkov \/ NextGaussian
SpecLabelled == InitLabelled /\ [][NextLabelled]_vars

\* the classes whose _stop_training does something
InitFinalized == InitHopfield \/ InitKMeans \/ InitGaussian
NextFinalized == NextHopfield \/ NextKMeans \/ NextGaussian
SpecFinalized == InitFinalized /\ [][NextFinalized]_vars

\* the classes that fit their model in _stop_training
InitFitted == InitKMeans \/ InitGaussian
NextFitted == NextKMeans \/ NextGaussian
SpecFitted == InitFitted /\ [][NextFitted]_vars

\* _label_one runs its while loop on: a pass that can be made is made
FairSpecHopfield == SpecHopfield /\ WF_vars(HopfieldRelax)

----------------------------------------------------------------------------
(* Claims about PerceptronClassifier *)

\* the labels argument of the last train call, one label per row
RowLabels == [i \in 1..Len(call.x) |-> izip_stretched(call.labels, i)]

\* C8: a Perceptron train call with a scalar label, or a label in its label
\* sequence, that is neither +1 nor -1 raises a training error and leaves
\* weights and bias as they were.
C8_BadLabelRejected ==
    (node = "Perceptron" /\ call.op = "train"
       /\ \E i \in 1..Len(call.labels.val) : call.labels.val[i] \notin {-1, 1})
    => (outcome = "TrainingException" /\ PerceptronState = pre)

C8_Witness ==
    /\ node = "Perceptron" /\ call.op = "train"
    /\ Len(pre.w) > 0
    /\ call.labels.seq /\ Len(call.labels.val) = Len(call.x)
    /\ Len(call.x) = 2
    /\ call.labels.val[1] = 1 /\ call.labels.val[2] = 0
    /\ outcome = "TrainingException"

\* the update of one row as the claim states it
C9_RowUpdate(s, xi, labeli) ==
    LET prediction == sign(SumSeq([j \in 1..Len(xi) |-> s.w[j] * xi[j]]) + s.b)
    IN  IF prediction = labeli THEN s
        ELSE [w |-> [j \in 1..Len(s.w) |-> s.w[j] + (labeli - prediction) * xi[j]],
              b |-> s.b + (labeli - prediction)]

RECURSIVE C9_RowsInOrder(_, _, _)
C9_RowsInOrder(s, x, rowlabels) ==
    IF x = <<>> THEN s
    ELSE C9_RowsInOrder(C9_RowUpdate(s, Head(x), Head(rowlabels)),
                        Tail(x), Tail(rowlabels))

C9_Start == IF Len(pre.w) = 0
            THEN [w |-> [j \in 1..input_dim |-> OneInRates], b |-> pre.b]
            ELSE pre

\* C9: a successful Perceptron train call takes the rows one at a time in row
\* order; each row's prediction is taken from the weights and bias as they
\* stand before that row's update, every weight then grows by
\* learning_rate * (label - prediction) * sample[j] and the bias by
\* learning_rate * (label - prediction); a row predicted right changes nothing.
C9_OnlineUpdateInRowOrder ==
    (node = "Perceptron" /\ call.op = "train" /\ outcome = "ok")
    => PerceptronState = C9_RowsInOrder(C9_Start, call.x, RowLabels)

\* a two-row batch on trained weights: both rows are predicted wrong by the
\* weights before the call, and the first row's update makes the prediction of
\* the second row right, so that the second row changes nothing
C9_Witness ==
    /\ node = "Perceptron" /\ call.op = "train" /\ outcome = "ok"
    /\ Len(pre.w) > 0 /\ pre.w # [j \in 1..input_dim |-> OneInRates]
    /\ Len(call.x) = 2
    /\ Perceptron_label(call.x[1], pre.w, pre.b) # RowLabels[1]
    /\ Perceptron_label(call.x[2], pre.w, pre.b) # RowLabels[2]
    /\ PerceptronState = C9_RowUpdate(pre, call.x[1], RowLabels[1])

----------------------------------------------------------------------------
(* Claims about DiscreteHopfieldClassifier *)

\* C3: on a finalized Hopfield net (symmetric weights, zero diagonal) the
\* relaxation of label with threshold 0 ends, whatever the query and whatever
\* order the units are visited in in each pass: a pass without flips comes
\* and label returns.
C3_RelaxationTerminates ==
    (node = "Hopfield" /\ relaxing /\ ~training /\ call.threshold = 0)
        ~> (~relaxing /\ outcome = "ok")

\* a relaxation on a finalized net of two patterns that needed more than one
\* pass, and returned
C3_Witness ==
    /\ node = "Hopfield" /\ ~training /\ num_patterns >= 2
    /\ call.op = "label" /\ call.threshold = 0
    /\ ~relaxing /\ outcome = "ok" /\ flipped

Hamming(p, q) == Cardinality({j \in 1..Len(p) : p[j] # q[j]})

\* C6: a net of input_dim 4 trained with exactly one pattern and finalized
\* returns that pattern for every query one bit away from it, with threshold
\* 0 and whatever the visit order.
C6_OneBitRecall ==
    (/\ node = "Hopfield" /\ input_dim = 4 /\ num_patterns = 1 /\ ~training
     /\ call.op = "label" /\ call.threshold = 0 /\ outcome = "ok"
     /\ Hamming(call.x[1], stored) = 1)
    => result = <<stored>>

C6_Witness ==
    /\ node = "Hopfield" /\ input_dim = 4 /\ num_patterns = 1 /\ ~training
    /\ call.op = "label" /\ call.threshold = 0 /\ outcome = "ok"
    /\ Hamming(call.x[1], stored) = 1
    /\ flipped
    /\ result = <<stored>>

----------------------------------------------------------------------------
(* Claims about KMeansClassifier *)

\* the index, counted from 0, of the centroid nearest to xi
C4_Nearest(xi, cents) ==
    CHOOSE i \in 0..(Len(cents) - 1) :
        /\ \A k \in 0..(Len(cents) - 1) :
              ~Nearer(xi, cents[k + 1], cents[i + 1])
        /\ \A k \in 0..(i - 1) : Nearer(xi, cents[i + 1], cents[k + 1])

\* C4: once the finalize of a KMeans classifier has returned, whether its
\* iterations found the centroids unchanged or max_iter of them went by, the
\* classifier holds centroids of num_clusters rows, and label returns for
\* each row of a batch the index of its nearest centroid.
C4_FinalizeLeavesCentroids ==
    /\ (node = "KMeans" /\ call.op = "stop_training" /\ outcome = "ok")
       => (centroids.set /\ Len(centroids.val) = num_clusters)
    /\ (node = "KMeans" /\ ~training /\ call.op = "label")
       => /\ outcome = "ok"
          /\ result = [i \in 1..Len(call.x) |->
                          C4_Nearest(call.x[i], centroids.val)]

----------------------------------------------------------------------------
(* Claims about SimpleMarkovClassifier *)

\* the sum of the values d has on keys
RECURSIVE SumOver(_, _)
SumOver(d, keys) ==
    IF keys = {} THEN 0
    ELSE LET key == CHOOSE k \in keys : TRUE
         IN  d[key] + SumOver(d, keys \ {key})

\* what was trained: how often a pair, a label, a feature, anything
SeenPair(f, l) == IF <<f, l>> \in DOMAIN observed THEN observed[<<f, l>>] ELSE 0
SeenLabel(l) == SumOver([f \in MarkovFeatures |-> SeenPair(f, l)], MarkovFeatures)
SeenFeature(f) == SumOver([l \in MarkovLabels |-> SeenPair(f, l)], MarkovLabels)
SeenTotal == SumOver(observed, DOMAIN observed)

\* (joint / label_count) * (label_count / total) / (feature_count / total)
C5_Formula(joint, label_count, feature_count, total) ==
    FDiv(FMul(FDiv(FromInt(joint), FromInt(label_count)),
              FDiv(FromInt(label_count), FromInt(total))),
         FDiv(FromInt(feature_count), FromInt(total)))

C5_Values == {[counts |-> t, prob |-> C5_Formula(t[1], t[2], t[3], t[4])] :
                 t \in Counts}

C5_Expected(f, l) ==
    (CHOOSE v \in C5_Values :
        v.counts = <<SeenPair(f, l), SeenLabel(l), SeenFeature(f), SeenTotal>>).prob

\* C5: probabilities of a feature tuple that was never trained is the empty
\* mapping; of a trained one it is a mapping with one entry for every label
\* ever trained, of the value (joint / label_count) * (label_count / total)
\* / (feature_count / total), the joint count being 0 for a pair never seen.
C5_ProbabilitiesFromCounts ==
    (node = "Markov" /\ call.op = "prob")
    => \A i \in 1..Len(call.x) :
          IF SeenFeature(call.x[i]) = 0
          THEN DOMAIN result[i] = {}
          ELSE /\ DOMAIN result[i] = {l \in MarkovLabels : SeenLabel(l) > 0}
               /\ \A l \in DOMAIN result[i] :
                     result[i][l] = C5_Expected(call.x[i], l)

\* a batch of a feature never trained and of a trained one that was never
\* seen with one of the two labels trained
C5_Witness ==
    /\ node = "Markov" /\ call.op = "prob" /\ Len(call.x) = 2
    /\ SeenFeature(call.x[1]) = 0 /\ result[1] = <<>>
    /\ SeenFeature(call.x[2]) > 1
    /\ DOMAIN result[2] = MarkovLabels
    /\ \E l \in MarkovLabels : SeenPair(call.x[2], l) = 0 /\ result[2][l] = Zero

\* the count tables agree with each other
C10_Consistent ==
    /\ ntotal_connections = SumOver(markov_labels, DOMAIN markov_labels)
    /\ ntotal_connections = SumOver(features, DOMAIN features)
    /\ ntotal_connections = SumOver(connections, DOMAIN connections)
    /\ \A f \in DOMAIN features :
          features[f] = SumOver(connections,
                                {c \in DOMAIN connections : c[1] = f})
    /\ \A l \in DOMAIN markov_labels :
          markov_labels[l] = SumOver(connections,
                                     {c \in DOMAIN connections : c[2] = l})

\* the least exponent of the doubles of a mapping that are not 0
RECURSIVE LeastExp(_, _, _)
LeastExp(d, keys, least) ==
    IF keys = {} THEN least
    ELSE LET key == CHOOSE k \in keys : TRUE
         IN  LeastExp(d, keys \ {key},
                      IF d[key].m # <<>> /\ d[key].e < least THEN d[key].e
                      ELSE least)

\* the sum of the doubles of a mapping, in units of 2^least
RECURSIVE ExactSum(_, _, _)
ExactSum(d, keys, least) ==
    IF keys = {} THEN <<>>
    ELSE LET key == CHOOSE k \in keys : TRUE
         IN  BigAdd(IF d[key].m = <<>> THEN <<>>
                    ELSE BigShl(d[key].m, d[key].e - least),
                    ExactSum(d, keys \ {key}, least))

\* the doubles of d added up as doubles: with two summands the double sum is
\* the exact sum rounded
FloatSum(d) == Round(ExactSum(d, DOMAIN d, LeastExp(d, DOMAIN d, 0)),
                     LeastExp(d, DOMAIN d, 0))

\* the distance of the exact sum of the doubles of d from 1 is at most
\* 2^-slack
SumsToOne(d, slack) ==
    LET least == LeastExp(d, DOMAIN d, 0)
        total == ExactSum(d, DOMAIN d, least)
        one == BigShl(<<1>>, -least)
        distance == IF BigCmp(total, one) >= 0 THEN BigSub(total, one)
                    ELSE BigSub(one, total)
    IN  BigCmp(distance, BigShl(<<1>>, -least - slack)) <= 0

\* the rows of the last probabilities call whose feature was trained
SeenRows == {i \in 1..Len(call.x) : call.x[i] \in DOMAIN features}

\* C10 as it was stated: the count tables stay consistent, and the
\* probabilities returned for a seen feature add up to exactly 1 (here: even
\* when they are added as doubles, the sum rounded once more).
C10_SumExactlyOne ==
    /\ node = "Markov" => C10_Consistent
    /\ (node = "Markov" /\ call.op = "prob")
       => \A i \in SeenRows : FloatSum(result[i]) = FromInt(1)

\* C10: after any train calls the total equals the sum of the label counts,
\* of the feature counts and of the joint counts, every feature count is the
\* sum of its joint counts and every label count the sum of its joint counts;
\* the doubles returned for a seen feature add up to 1 within 2^-50, the
\* rounding of their divisions and product.
C10_CountsConsistent ==
    /\ node = "Markov" => C10_Consistent
    /\ (node = "Markov" /\ call.op = "prob")
       => \A i \in SeenRows : SumsToOne(result[i], 50)

\* five observations of all the features and labels, and a probabilities
\* call on a seen feature whose doubles do not add up to 1
C10_Witness ==
    /\ node = "Markov" /\ call.op = "prob"
    /\ ntotal_connections = 5
    /\ DOMAIN markov_labels = MarkovLabels
    /\ \E i \in SeenRows : /\ FloatSum(result[i]) # FromInt(1)
                           /\ SumsToOne(result[i], 50)

----------------------------------------------------------------------------
(* Claims about several classes *)

\* the state of the classifier that was constructed
ClassState ==
    CASE node = "Perceptron" -> PerceptronState
      [] node = "Markov" -> MarkovState
      [] node = "Hopfield" -> HopfieldState
      [] node = "KMeans" -> KMeansState
      [] node = "Gaussian" -> GaussianState

\* C1: a train call of a Perceptron, Markov or Gaussian classifier with a
\* label sequence whose length is not the number of rows of the batch raises
\* a training error, and leaves the weights and bias, the count tables, the
\* accumulators as they were before the call.
C1_LengthMismatchRejected ==
    (/\ node \in {"Perceptron", "Markov", "Gaussian"}
     /\ call.op = "train"
     /\ call.labels.seq /\ Len(call.labels.val) # Len(call.x))
    => (outcome = "TrainingException" /\ ClassState = pre)

\* a Markov classifier with counts in its tables refuses one label for two
\* rows
C1_Witness ==
    /\ node = "Markov" /\ call.op = "train"
    /\ pre.n > 0
    /\ call.labels.seq /\ Len(call.labels.val) = 1 /\ Len(call.x) = 2
    /\ outcome = "TrainingException"
    /\ MarkovState = pre

\* C2: on a Hopfield, KMeans or Gaussian classifier that was finalized,
\* finalize once more succeeds and leaves what label and probabilities
\* return as it was after the first finalize.
C2_FinalizeIdempotent ==
    (/\ node \in {"Hopfield", "KMeans", "Gaussian"}
     /\ call.op = "stop_training"
     /\ ~pre.training)
    => (outcome = "ok" /\ ClassState = pre)

====
